---------------------------- MODULE Spec2Model ----------------------------
(***************************************************************************)
(* Swap-record normalisation and FIFO P&L, as implemented by the Python    *)
(* reference scripts:                                                      *)
(*   - PythonUSDPnLCalculator (python_pnl_usd_reference.py): one record -> *)
(*     one or two BUY/SELL events, then a per-token FIFO ledger in USD;    *)
(*   - calculate_pnl (pnl_calculator.py): entries grouped by tx_hash, net  *)
(*     per-symbol changes, in/out flows, then a per-symbol FIFO ledger and *)
(*     a report at the current prices;                                     *)
(*   - PythonPnLCalculator (python_pnl_reference.py): the SOL-domain       *)
(*     parser of one record;                                               *)
(*   - consolidate_transactions (consolidate_transactions.py): the net     *)
(*     changes of each group of entries;                                   *)
(*   - ImplementationAuditor.determine_actual_direction                    *)
(*     (implementation_audit.py): the direction of one record;             *)
(*   - run_pnl_verification (pnl_manual_verifier.py): the step-by-step     *)
(*     recomputation of calculate_pnl on the same file;                    *)
(*   - DeepTransactionAnalyzer.fetch_and_save_transactions                 *)
(*     (deep_transaction_structure_analysis.py): the paginated fetch of    *)
(*     the records.                                                        *)
(*                                                                         *)
(* Numbers.  Token quantities are integers (whole units in the USD         *)
(* calculator; multiples of the 1e-9 tolerance in calculate_pnl).  USD     *)
(* amounts, prices and ratios are fixed-point integers counting            *)
(* 1/DecScale: a quotient is rounded half-even to that resolution, as a    *)
(* Decimal/float quotient is rounded to its precision.  A Decimal sum      *)
(* keeps DecDigits significant digits, rounded half-even, as the context   *)
(* keeps 28.  The float sums of net changes keep FloatBits significant     *)
(* bits, rounded half-even, as a double keeps 53.                          *)
(***************************************************************************)
EXTENDS Integers, Sequences, FiniteSets, TLC

VARIABLES
    pc,                   \* position in the running script
    transactions,         \* raw swap records read so far
    all_events,           \* run_full_analysis: all_events
    sorted_events,        \* calculate_fifo_pnl: sorted_events
    next_event,           \* calculate_fifo_pnl: index of the next event of the loop
    positions,            \* calculate_fifo_pnl: token_mint -> list of lots
    realized_pnl_usd,     \* calculate_fifo_pnl: realized_pnl_usd
    total_invested_usd,   \* calculate_fifo_pnl: total_invested_usd
    total_withdrawn_usd,  \* calculate_fifo_pnl: total_withdrawn_usd
    buy_count,            \* calculate_fifo_pnl: buy_count
    sell_count,           \* calculate_fifo_pnl: sell_count
    total_cost_basis_usd, \* calculate_fifo_pnl: total_cost_basis_usd of the last SELL
    pnl_usd,              \* calculate_fifo_pnl: pnl_usd of the last SELL
    warnings,             \* printed "SELL without position" warnings (token mints)
    current_positions,    \* calculate_fifo_pnl: current_positions of the result
    unrealized_pnl_usd,   \* calculate_fifo_pnl: unrealized_pnl_usd of the result
    grouped_by_hash,      \* calculate_pnl: grouped_by_hash
    processed_events,     \* calculate_pnl: processed_events
    calc_next,            \* calculate_pnl: index of the next event of the FIFO loop
    asset_lots,           \* calculate_pnl: asset_lots
    realized_pnl,         \* calculate_pnl: realized_pnl
    unrealized_pnl,       \* calculate_pnl: unrealized_pnl
    holdings_summary,     \* calculate_pnl: holdings_summary
    audit,                \* implementation_audit: result of determine_actual_direction
    net_summary,          \* consolidate_transactions: net_summary
    verification,         \* run_pnl_verification: its events, lots and realized PNL
    max_transactions,     \* fetch_and_save_transactions: max_transactions
    offset,               \* fetch_and_save_transactions: offset
    responses             \* the responses the API has given, in order

usdVars == <<all_events, sorted_events, next_event, positions, realized_pnl_usd,
             total_invested_usd, total_withdrawn_usd, buy_count, sell_count,
             total_cost_basis_usd, pnl_usd, warnings, current_positions,
             unrealized_pnl_usd>>

calcVars == <<grouped_by_hash, processed_events, calc_next, asset_lots, realized_pnl,
              unrealized_pnl, holdings_summary>>

fetchVars == <<max_transactions, offset, responses>>

toolVars == <<audit, net_summary, verification, fetchVars>>

vars == <<pc, transactions, all_events, sorted_events, next_event, positions,
          realized_pnl_usd, total_invested_usd, total_withdrawn_usd, buy_count,
          sell_count, total_cost_basis_usd, pnl_usd, warnings, current_positions,
          unrealized_pnl_usd,
          grouped_by_hash, processed_events, calc_next, asset_lots, realized_pnl,
          unrealized_pnl, holdings_summary, audit, net_summary, verification,
          max_transactions, offset, responses>>

-----------------------------------------------------------------------------
(* Bounds and value domains                                                *)

DecScale == 1000      \* fixed-point resolution standing for Decimal's precision
MaxTxs == 3           \* records fed to run_full_analysis
MaxEntries == 2       \* ledger entries fed to calculate_pnl
MaxGroup == 3         \* entries of the groups fed to consolidate_transactions
MaxRequested == 6     \* largest max_transactions asked of the fetch loop

SOL == "So11"         \* self.sol_address
Mints == {SOL, "A", "B"}

Eps == 1              \* the 1e-9 tolerance, in the unit of calculate_pnl's quantities
Symbols == {"A", "B", "C"}

Abs(x) == IF x < 0 THEN -x ELSE x

(* Half-even rounding of n/d, d > 0: the rounding of a Decimal quotient.   *)
DecRound(n, d) ==
    LET a == Abs(n)
        q == a \div d
        r == a % d
        m == IF 2 * r > d THEN q + 1
             ELSE IF 2 * r < d THEN q
             ELSE IF q % 2 = 0 THEN q ELSE q + 1
    IN  IF n < 0 THEN -m ELSE m

(* Decimal product of two fixed-point numbers.                             *)
DecMul(x, y) == DecRound(x * y, DecScale)

DecDigits == 5        \* significant digits of a Decimal

(* The spacing of the Decimals around a magnitude.                         *)
RECURSIVE DecUlp(_)
DecUlp(a) == IF a < 10 ^ DecDigits THEN 1 ELSE 10 * DecUlp(a \div 10)

(* Decimal sum of two fixed-point numbers: the exact sum, rounded          *)
(* half-even to the significant digits of the context.                     *)
DecAdd(x, y) == DecRound(x + y, DecUlp(Abs(x + y))) * DecUlp(Abs(x + y))

FloatBits == 4        \* significant bits of a float

(* The spacing of the floats around a magnitude.                           *)
RECURSIVE Ulp(_)
Ulp(a) == IF a < 2 ^ FloatBits THEN 1 ELSE 2 * Ulp(a \div 2)

(* The float nearest to x, ties to even.                                   *)
FloatRound(x) == DecRound(x, Ulp(Abs(x))) * Ulp(Abs(x))

(* Sum of two floats: the exact sum, rounded.                              *)
FloatAdd(x, y) == FloatRound(x + y)

-----------------------------------------------------------------------------
(* PythonUSDPnLCalculator.parse_transaction_to_events                      *)

TypeSwaps == {"from", "to"}

(* One side of a swap record, with the direction hint the API gives it.    *)
HintedLeg(addr, change, price, hint) ==
    [address |-> addr, symbol |-> addr, ui_change_amount |-> change, price |-> price,
     type_swap |-> hint]

(* A side whose hint agrees with the sign of its change.                   *)
Leg(addr, change, price) ==
    HintedLeg(addr, change, price, IF change < 0 THEN "from" ELSE "to")

FinancialEvent(type, mint, symbol, amount, usd, sol, price, ts, hash) ==
    [event_type |-> type, token_mint |-> mint, token_symbol |-> symbol,
     token_amount |-> amount, usd_value |-> usd, sol_amount |-> sol,
     price_per_token |-> price, timestamp |-> ts, tx_hash |-> hash]

(* token_spent taking the side whose hint is "from".                       *)
token_spent_by_hint(tx) ==
    IF tx.quote.type_swap = "from"
    THEN [symbol |-> tx.quote.symbol, address |-> tx.quote.address,
          amount |-> Abs(tx.quote.ui_change_amount), price |-> tx.quote.price]
    ELSE [symbol |-> tx.base.symbol, address |-> tx.base.address,
          amount |-> Abs(tx.base.ui_change_amount), price |-> tx.base.price]

(* Lines 94-121: the side whose change is negative is the spent one; the   *)
(* test is on quote_change alone.                                          *)
token_spent(tx) ==
    IF tx.quote.ui_change_amount < 0
    THEN [symbol |-> tx.quote.symbol, address |-> tx.quote.address,
          amount |-> Abs(tx.quote.ui_change_amount), price |-> tx.quote.price]
    ELSE [symbol |-> tx.base.symbol, address |-> tx.base.address,
          amount |-> Abs(tx.base.ui_change_amount), price |-> tx.base.price]

token_received(tx) ==
    IF tx.quote.ui_change_amount < 0
    THEN [symbol |-> tx.base.symbol, address |-> tx.base.address,
          amount |-> tx.base.ui_change_amount, price |-> tx.base.price]
    ELSE [symbol |-> tx.quote.symbol, address |-> tx.quote.address,
          amount |-> tx.quote.ui_change_amount, price |-> tx.quote.price]

spent_usd(tx) == token_spent(tx).amount * token_spent(tx).price

received_usd(tx) == token_received(tx).amount * token_received(tx).price

(* SolSellEvent valued from the SOL leg.                                   *)
SolSellEvent_sol_valued(tx) ==
    FinancialEvent("SELL", token_spent(tx).address, token_spent(tx).symbol,
                   token_spent(tx).amount, received_usd(tx), token_received(tx).amount,
                   token_spent(tx).price, tx.block_unix_time, tx.tx_hash)

(* Lines 134-144: token -> SOL.                                            *)
SolSellEvent(tx) ==
    FinancialEvent("SELL", token_spent(tx).address, token_spent(tx).symbol,
                   token_spent(tx).amount, spent_usd(tx), token_received(tx).amount,
                   token_spent(tx).price, tx.block_unix_time, tx.tx_hash)

(* Lines 147-157: SOL -> token.                                            *)
SolBuyEvent(tx) ==
    FinancialEvent("BUY", token_received(tx).address, token_received(tx).symbol,
                   token_received(tx).amount, received_usd(tx), token_spent(tx).amount,
                   token_received(tx).price, tx.block_unix_time, tx.tx_hash)

(* Line 161.                                                               *)
transaction_usd_value(tx) == spent_usd(tx)

(* Lines 164-174: token -> token, the SELL of the token spent.             *)
DualSellEvent(tx) ==
    FinancialEvent("SELL", token_spent(tx).address, token_spent(tx).symbol,
                   token_spent(tx).amount, transaction_usd_value(tx), 0,
                   token_spent(tx).price, tx.block_unix_time, tx.tx_hash)

(* DualBuyEvent with the value recomputed from the received token's price. *)
DualBuyEvent_recomputed(tx) ==
    FinancialEvent("BUY", token_received(tx).address, token_received(tx).symbol,
                   token_received(tx).amount, received_usd(tx), 0,
                   token_received(tx).price, tx.block_unix_time, tx.tx_hash)

(* Lines 177-187: token -> token, the BUY of the token received.           *)
DualBuyEvent(tx) ==
    FinancialEvent("BUY", token_received(tx).address, token_received(tx).symbol,
                   token_received(tx).amount, transaction_usd_value(tx), 0,
                   token_received(tx).price, tx.block_unix_time, tx.tx_hash)

(* parse_transaction_to_events emitting the pair whatever the SOL side.    *)
parse_always_dual(tx) == << DualSellEvent(tx), DualBuyEvent(tx) >>

(* Lines 131-189.                                                          *)
parse_transaction_to_events(tx) ==
    IF token_received(tx).address = SOL THEN << SolSellEvent(tx) >>
    ELSE IF token_spent(tx).address = SOL THEN << SolBuyEvent(tx) >>
    ELSE << DualSellEvent(tx), DualBuyEvent(tx) >>

-----------------------------------------------------------------------------
(* PythonPnLCalculator.parse_transaction_to_events, the SOL-domain         *)
(* reference of python_pnl_reference.py.  It chooses the spent and the     *)
(* received side as the USD reference does; sol_amount counts 1/DecScale   *)
(* SOL.                                                                    *)

SolFinancialEvent(type, mint, symbol, amount, sol, price, ts, hash) ==
    [event_type |-> type, token_mint |-> mint, token_symbol |-> symbol,
     token_amount |-> amount, sol_amount |-> sol, price_per_token |-> price,
     timestamp |-> ts, tx_hash |-> hash]

(* Line 153: the fixed SOL price of the token-to-token branch, in USD.     *)
sol_price == 155

(* Lines 156-157.                                                          *)
spent_sol_equiv(tx) == DecRound(spent_usd(tx), sol_price)

(* Lines 171-172.                                                          *)
received_sol_equiv(tx) == DecRound(received_usd(tx), sol_price)

(* Lines 126-187: one event when SOL is received or spent, with the SOL    *)
(* amount of the record; a SELL and a BUY otherwise, each with the SOL     *)
(* equivalent of its own side.                                             *)
sol_parse_transaction_to_events(tx) ==
    IF token_received(tx).address = SOL
    THEN << SolFinancialEvent("SELL", token_spent(tx).address, token_spent(tx).symbol,
                              token_spent(tx).amount,
                              token_received(tx).amount * DecScale,
                              token_spent(tx).price, tx.block_unix_time, tx.tx_hash) >>
    ELSE IF token_spent(tx).address = SOL
    THEN << SolFinancialEvent("BUY", token_received(tx).address,
                              token_received(tx).symbol, token_received(tx).amount,
                              token_spent(tx).amount * DecScale,
                              token_received(tx).price, tx.block_unix_time,
                              tx.tx_hash) >>
    ELSE << SolFinancialEvent("SELL", token_spent(tx).address, token_spent(tx).symbol,
                              token_spent(tx).amount, spent_sol_equiv(tx),
                              token_spent(tx).price, tx.block_unix_time, tx.tx_hash),
            SolFinancialEvent("BUY", token_received(tx).address,
                              token_received(tx).symbol, token_received(tx).amount,
                              received_sol_equiv(tx), token_received(tx).price,
                              tx.block_unix_time, tx.tx_hash) >>

-----------------------------------------------------------------------------
(* ImplementationAuditor.determine_actual_direction                        *)

(* Lines 197-226: the direction is read from the signs of the two changes; *)
(* the hints only decide the 'consistent' flag.                            *)
determine_actual_direction(tx) ==
    IF tx.quote.ui_change_amount < 0 /\ tx.base.ui_change_amount > 0
    THEN [spent_token |-> tx.quote.symbol, received_token |-> tx.base.symbol,
          consistent |-> tx.quote.type_swap = "from" /\ tx.base.type_swap = "to"]
    ELSE IF tx.quote.ui_change_amount > 0 /\ tx.base.ui_change_amount < 0
    THEN [spent_token |-> tx.base.symbol, received_token |-> tx.quote.symbol,
          consistent |-> tx.base.type_swap = "from" /\ tx.quote.type_swap = "to"]
    ELSE [spent_token |-> "unknown", received_token |-> "unknown",
          consistent |-> FALSE]

-----------------------------------------------------------------------------
(* PythonUSDPnLCalculator.calculate_fifo_pnl                               *)

RECURSIVE InsertByTimestamp(_, _)
InsertByTimestamp(sorted, e) ==
    IF sorted = <<>> THEN <<e>>
    ELSE IF Head(sorted).timestamp <= e.timestamp
         THEN <<Head(sorted)>> \o InsertByTimestamp(Tail(sorted), e)
         ELSE <<e>> \o sorted

(* SortByTimestamp leaving the events in their input order.                *)
SortByTimestamp_input_order(events) == events

(* sorted(events, key=lambda e: e.timestamp): a stable sort.               *)
RECURSIVE SortByTimestamp(_)
SortByTimestamp(events) ==
    IF events = <<>> THEN <<>>
    ELSE InsertByTimestamp(SortByTimestamp(SubSeq(events, 1, Len(events) - 1)),
                           events[Len(events)])

(* Lines 217-224: the lot a BUY appends.                                   *)
NewPosition(event) ==
    [quantity |-> event.token_amount,
     cost_per_token_usd |-> IF event.token_amount > 0
                            THEN DecRound(event.usd_value, event.token_amount)
                            ELSE 0,
     total_cost_usd |-> event.usd_value,
     timestamp |-> event.timestamp]

(* PartialSell leaving the lot's total cost untouched.                     *)
PartialSell_keeps_cost(oldest, sold_quantity) ==
    LET proportional_cost_usd ==
            DecMul(DecRound(sold_quantity * DecScale, oldest.quantity),
                   oldest.total_cost_usd)
        quantity == oldest.quantity - sold_quantity
    IN  [cost |-> proportional_cost_usd,
         lot |-> [quantity |-> quantity,
                  cost_per_token_usd |-> IF quantity > 0
                                         THEN DecRound(oldest.total_cost_usd, quantity)
                                         ELSE 0,
                  total_cost_usd |-> oldest.total_cost_usd,
                  timestamp |-> oldest.timestamp]]

(* Lines 256-267: partial sale of the oldest lot.                          *)
PartialSell(oldest, sold_quantity) ==
    LET proportional_cost_usd ==
            DecMul(DecRound(sold_quantity * DecScale, oldest.quantity),
                   oldest.total_cost_usd)
        quantity == oldest.quantity - sold_quantity
        total == DecAdd(oldest.total_cost_usd, -proportional_cost_usd)
    IN  [cost |-> proportional_cost_usd,
         lot |-> [quantity |-> quantity,
                  cost_per_token_usd |-> IF quantity > 0
                                         THEN DecRound(total, quantity) ELSE 0,
                  total_cost_usd |-> total,
                  timestamp |-> oldest.timestamp]]

(* SellFifo taking a whole lot only when it is strictly smaller than the   *)
(* quantity still to sell.                                                 *)
RECURSIVE SellFifo_strict(_, _, _)
SellFifo_strict(lots, remaining_to_sell, cost_basis) ==
    IF remaining_to_sell > 0 /\ lots # <<>>
    THEN LET oldest_position == Head(lots)
         IN  IF oldest_position.quantity < remaining_to_sell
             THEN SellFifo_strict(Tail(lots),
                                  remaining_to_sell - oldest_position.quantity,
                                  DecAdd(cost_basis, oldest_position.total_cost_usd))
             ELSE LET part == PartialSell(oldest_position, remaining_to_sell)
                  IN  [lots |-> <<part.lot>> \o Tail(lots),
                       remaining_to_sell |-> 0,
                       cost_basis |-> DecAdd(cost_basis, part.cost)]
    ELSE [lots |-> lots, remaining_to_sell |-> remaining_to_sell,
          cost_basis |-> cost_basis]

(* Lines 241-267: the while loop of a SELL over the token's lots.          *)
RECURSIVE SellFifo(_, _, _)
SellFifo(lots, remaining_to_sell, cost_basis) ==
    IF remaining_to_sell > 0 /\ lots # <<>>
    THEN LET oldest_position == Head(lots)
         IN  IF oldest_position.quantity <= remaining_to_sell
             THEN SellFifo(Tail(lots),
                           remaining_to_sell - oldest_position.quantity,
                           DecAdd(cost_basis, oldest_position.total_cost_usd))
             ELSE LET part == PartialSell(oldest_position, remaining_to_sell)
                  IN  [lots |-> <<part.lot>> \o Tail(lots),
                       remaining_to_sell |-> 0,
                       cost_basis |-> DecAdd(cost_basis, part.cost)]
    ELSE [lots |-> lots, remaining_to_sell |-> remaining_to_sell,
          cost_basis |-> cost_basis]

CurrentEvent == sorted_events[next_event]

InLoop == pc = "fifo" /\ next_event <= Len(sorted_events)

(* run_full_analysis, lines 334-336: one iteration of the parsing loop,   *)
(* on the next record of the fetched list.                                 *)
ParseNext(tx) ==
    /\ pc = "parse"
    /\ Len(transactions) < MaxTxs
    /\ transactions' = Append(transactions, tx)
    /\ all_events' = all_events \o parse_transaction_to_events(tx)
    /\ UNCHANGED <<pc, sorted_events, next_event, positions, realized_pnl_usd,
                   total_invested_usd, total_withdrawn_usd, buy_count, sell_count,
                   total_cost_basis_usd, pnl_usd, warnings>>
    /\ UNCHANGED <<current_positions, unrealized_pnl_usd>>
    /\ UNCHANGED calcVars
    /\ UNCHANGED toolVars

(* Lines 326-328 and 196-204: an empty fetch aborts; otherwise the ledger  *)
(* starts from the sorted events with empty positions and zero totals.     *)
BeginFifo ==
    /\ pc = "parse"
    /\ transactions # <<>>
    /\ pc' = "fifo"
    /\ sorted_events' = SortByTimestamp(all_events)
    /\ next_event' = 1
    /\ UNCHANGED <<transactions, all_events, positions, realized_pnl_usd,
                   total_invested_usd, total_withdrawn_usd, buy_count, sell_count,
                   total_cost_basis_usd, pnl_usd, warnings>>
    /\ UNCHANGED <<current_positions, unrealized_pnl_usd>>
    /\ UNCHANGED calcVars
    /\ UNCHANGED toolVars

(* ApplyBuy putting the new lot at the front of the queue.                 *)
ApplyBuy_at_front ==
    /\ InLoop
    /\ CurrentEvent.event_type = "BUY"
    /\ buy_count' = buy_count + 1
    /\ total_invested_usd' = DecAdd(total_invested_usd, CurrentEvent.usd_value)
    /\ positions' = [positions EXCEPT ![CurrentEvent.token_mint] =
                        <<NewPosition(CurrentEvent)>> \o @]
    /\ next_event' = next_event + 1
    /\ UNCHANGED <<pc, transactions, all_events, sorted_events, realized_pnl_usd,
                   total_withdrawn_usd, sell_count, total_cost_basis_usd, pnl_usd,
                   warnings>>
    /\ UNCHANGED <<current_positions, unrealized_pnl_usd>>
    /\ UNCHANGED calcVars
    /\ UNCHANGED toolVars

(* Lines 209-226.                                                          *)
ApplyBuy ==
    /\ InLoop
    /\ CurrentEvent.event_type = "BUY"
    /\ buy_count' = buy_count + 1
    /\ total_invested_usd' = DecAdd(total_invested_usd, CurrentEvent.usd_value)
    /\ positions' = [positions EXCEPT ![CurrentEvent.token_mint] =
                        Append(@, NewPosition(CurrentEvent))]
    /\ next_event' = next_event + 1
    /\ UNCHANGED <<pc, transactions, all_events, sorted_events, realized_pnl_usd,
                   total_withdrawn_usd, sell_count, total_cost_basis_usd, pnl_usd,
                   warnings>>
    /\ UNCHANGED <<current_positions, unrealized_pnl_usd>>
    /\ UNCHANGED calcVars
    /\ UNCHANGED toolVars

(* SellWithoutPosition booking the whole proceeds as realized P&L.         *)
SellWithoutPosition_realizes ==
    /\ InLoop
    /\ CurrentEvent.event_type = "SELL"
    /\ positions[CurrentEvent.token_mint] = <<>>
    /\ sell_count' = sell_count + 1
    /\ total_withdrawn_usd' = DecAdd(total_withdrawn_usd, CurrentEvent.usd_value)
    /\ total_cost_basis_usd' = 0
    /\ pnl_usd' = CurrentEvent.usd_value
    /\ realized_pnl_usd' = DecAdd(realized_pnl_usd, CurrentEvent.usd_value)
    /\ warnings' = Append(warnings, CurrentEvent.token_mint)
    /\ next_event' = next_event + 1
    /\ UNCHANGED <<pc, transactions, all_events, sorted_events, positions,
                   total_invested_usd, buy_count>>
    /\ UNCHANGED <<current_positions, unrealized_pnl_usd>>
    /\ UNCHANGED calcVars
    /\ UNCHANGED toolVars

(* Lines 228-234: a SELL of a token without lots is counted, warned about  *)
(* and skipped.                                                            *)
SellWithoutPosition ==
    /\ InLoop
    /\ CurrentEvent.event_type = "SELL"
    /\ positions[CurrentEvent.token_mint] = <<>>
    /\ sell_count' = sell_count + 1
    /\ total_withdrawn_usd' = DecAdd(total_withdrawn_usd, CurrentEvent.usd_value)
    /\ warnings' = Append(warnings, CurrentEvent.token_mint)
    /\ next_event' = next_event + 1
    /\ UNCHANGED <<pc, transactions, all_events, sorted_events, positions,
                   realized_pnl_usd, total_invested_usd, buy_count,
                   total_cost_basis_usd, pnl_usd>>
    /\ UNCHANGED <<current_positions, unrealized_pnl_usd>>
    /\ UNCHANGED calcVars
    /\ UNCHANGED toolVars

(* ApplySell leaving a SELL that its lots do not cover out of the total    *)
(* withdrawn.                                                              *)
ApplySell_covered_only ==
    /\ InLoop
    /\ CurrentEvent.event_type = "SELL"
    /\ positions[CurrentEvent.token_mint] # <<>>
    /\ LET sold == SellFifo(positions[CurrentEvent.token_mint],
                            CurrentEvent.token_amount, 0)
       IN  /\ positions' = [positions EXCEPT ![CurrentEvent.token_mint] = sold.lots]
           /\ total_cost_basis_usd' = sold.cost_basis
           /\ pnl_usd' = DecAdd(CurrentEvent.usd_value, -sold.cost_basis)
           /\ realized_pnl_usd' =
                  DecAdd(realized_pnl_usd,
                         DecAdd(CurrentEvent.usd_value, -sold.cost_basis))
           /\ total_withdrawn_usd' =
                  IF sold.remaining_to_sell > 0 THEN total_withdrawn_usd
                  ELSE DecAdd(total_withdrawn_usd, CurrentEvent.usd_value)
    /\ sell_count' = sell_count + 1
    /\ next_event' = next_event + 1
    /\ UNCHANGED <<pc, transactions, all_events, sorted_events, total_invested_usd,
                   buy_count, warnings>>
    /\ UNCHANGED <<current_positions, unrealized_pnl_usd>>
    /\ UNCHANGED calcVars
    /\ UNCHANGED toolVars

(* Lines 228-273.                                                          *)
ApplySell ==
    /\ InLoop
    /\ CurrentEvent.event_type = "SELL"
    /\ positions[CurrentEvent.token_mint] # <<>>
    /\ LET sold == SellFifo(positions[CurrentEvent.token_mint],
                            CurrentEvent.token_amount, 0)
       IN  /\ positions' = [positions EXCEPT ![CurrentEvent.token_mint] = sold.lots]
           /\ total_cost_basis_usd' = sold.cost_basis
           /\ pnl_usd' = DecAdd(CurrentEvent.usd_value, -sold.cost_basis)
           /\ realized_pnl_usd' =
                  DecAdd(realized_pnl_usd,
                         DecAdd(CurrentEvent.usd_value, -sold.cost_basis))
    /\ sell_count' = sell_count + 1
    /\ total_withdrawn_usd' = DecAdd(total_withdrawn_usd, CurrentEvent.usd_value)
    /\ next_event' = next_event + 1
    /\ UNCHANGED <<pc, transactions, all_events, sorted_events, total_invested_usd,
                   buy_count, warnings>>
    /\ UNCHANGED <<current_positions, unrealized_pnl_usd>>
    /\ UNCHANGED calcVars
    /\ UNCHANGED toolVars

(* Line 281: sum(p['quantity'] for p in position_list).                    *)
RECURSIVE TotalQuantity(_)
TotalQuantity(lots) ==
    IF lots = <<>> THEN 0 ELSE Head(lots).quantity + TotalQuantity(Tail(lots))

(* Line 282: sum(p['total_cost_usd'] for p in position_list).              *)
RECURSIVE TotalCost(_)
TotalCost(lots) ==
    IF lots = <<>> THEN 0
    ELSE DecAdd(TotalCost(SubSeq(lots, 1, Len(lots) - 1)),
                lots[Len(lots)].total_cost_usd)

(* Lines 279-294: one Position per token that still has lots.              *)
CurrentPositions(lots) ==
    [m \in {mint \in Mints : lots[mint] # <<>>} |->
        [token_mint |-> m, token_symbol |-> m,
         quantity |-> TotalQuantity(lots[m]),
         average_cost_usd |-> IF TotalQuantity(lots[m]) > 0
                              THEN DecRound(TotalCost(lots[m]), TotalQuantity(lots[m]))
                              ELSE 0,
         total_cost_usd |-> TotalCost(lots[m])]]

(* Lines 275-314: the loop is over; the result is assembled, with the      *)
(* unrealized P&L set to 0 for want of current prices.                     *)
FinishFifo ==
    /\ pc = "fifo"
    /\ next_event > Len(sorted_events)
    /\ pc' = "done"
    /\ current_positions' = CurrentPositions(positions)
    /\ unrealized_pnl_usd' = 0
    /\ UNCHANGED <<transactions, all_events, sorted_events, next_event, positions,
                   realized_pnl_usd, total_invested_usd, total_withdrawn_usd,
                   buy_count, sell_count, total_cost_basis_usd, pnl_usd, warnings>>
    /\ UNCHANGED calcVars
    /\ UNCHANGED toolVars

(* Lines 199-202: the ledger before the first event.                       *)
EmptyLedger ==
    [positions |-> [m \in Mints |-> <<>>], realized_pnl_usd |-> 0,
     total_invested_usd |-> 0, total_withdrawn_usd |-> 0]

(* Lines 206-273: the body of the loop for one event, as a function of the *)
(* ledger.                                                                 *)
LedgerAfter(ledger, event) ==
    IF event.event_type = "BUY"
    THEN [ledger EXCEPT
             !.total_invested_usd = DecAdd(@, event.usd_value),
             !.positions[event.token_mint] = Append(@, NewPosition(event))]
    ELSE IF ledger.positions[event.token_mint] = <<>>
    THEN [ledger EXCEPT !.total_withdrawn_usd = DecAdd(@, event.usd_value)]
    ELSE LET sold == SellFifo(ledger.positions[event.token_mint],
                              event.token_amount, 0)
         IN  [ledger EXCEPT
                 !.total_withdrawn_usd = DecAdd(@, event.usd_value),
                 !.positions[event.token_mint] = sold.lots,
                 !.realized_pnl_usd =
                     DecAdd(@, DecAdd(event.usd_value, -sold.cost_basis))]

(* Lines 206-273: the loop over a list of events, in the order of the      *)
(* list.                                                                   *)
RECURSIVE LedgerOver(_)
LedgerOver(events) ==
    IF events = <<>> THEN EmptyLedger
    ELSE LedgerAfter(LedgerOver(SubSeq(events, 1, Len(events) - 1)),
                     events[Len(events)])

(* Lines 196-273: calculate_fifo_pnl as a function of the list of events   *)
(* it is given.                                                            *)
FifoResult(events) == LedgerOver(SortByTimestamp(events))

-----------------------------------------------------------------------------
(* pnl_calculator.calculate_pnl                                            *)

(* Lines 39-41: append the entry to the list of its tx_hash; the dict      *)
(* keeps the hashes in order of first appearance.                          *)
RECURSIVE GroupEntry(_, _)
GroupEntry(groups, tx) ==
    IF groups = <<>> THEN << [tx_hash |-> tx.tx_hash, entries |-> <<tx>>] >>
    ELSE IF Head(groups).tx_hash = tx.tx_hash
         THEN << [Head(groups) EXCEPT !.entries = Append(@, tx)] >> \o Tail(groups)
         ELSE << Head(groups) >> \o GroupEntry(Tail(groups), tx)

(* Lines 57-58: net_token_changes[symbol] += change in float arithmetic, a *)
(* new symbol starting at 0.0 at the end of the dict.                      *)
RECURSIVE AddChange(_, _, _)
AddChange(net, symbol, change) ==
    IF net = <<>> THEN << [symbol |-> symbol, change |-> change] >>
    ELSE IF Head(net).symbol = symbol
         THEN << [Head(net) EXCEPT !.change = FloatAdd(@, change)] >> \o Tail(net)
         ELSE << Head(net) >> \o AddChange(Tail(net), symbol, change)

(* Lines 51-58: the base leg, then the quote leg of one entry.             *)
AddEntry(net, entry) ==
    AddChange(AddChange(net, entry.base.symbol, entry.base.ui_change_amount),
              entry.quote.symbol, entry.quote.ui_change_amount)

(* net_token_changes reading the first entry of the group only.           *)
net_first_entry_only(entries) ==
    IF entries = <<>> THEN <<>> ELSE AddEntry(<<>>, entries[1])

(* Lines 45-58: the net change per symbol over all entries of the group.   *)
RECURSIVE net_token_changes(_)
net_token_changes(entries) ==
    IF entries = <<>> THEN <<>>
    ELSE AddEntry(net_token_changes(SubSeq(entries, 1, Len(entries) - 1)),
                  entries[Len(entries)])

(* Line 58: the symbols of the legs of the group.                          *)
token_addresses(entries) ==
    UNION {{entries[i].base.symbol, entries[i].quote.symbol} : i \in 1..Len(entries)}

(* Lines 47-50.                                                            *)
RECURSIVE total_volume_usd(_)
total_volume_usd(entries) ==
    IF entries = <<>> THEN 0
    ELSE total_volume_usd(Tail(entries)) + Head(entries).volume_usd

IsInFlow(c) == c.change > Eps
IsOutFlow(c) == c.change < -Eps

(* Line 61.                                                                *)
in_flows(net) == SelectSeq(net, IsInFlow)

(* out_flows keeping the sign of the net change.                            *)
out_flows_signed(net) == SelectSeq(net, IsOutFlow)

(* Line 62.                                                                *)
out_flows(net) ==
    LET out == SelectSeq(net, IsOutFlow)
    IN  [i \in 1..Len(out) |-> [symbol |-> out[i].symbol, change |-> Abs(out[i].change)]]

(* Lines 66-73.                                                            *)
ProcessedEvent(group) ==
    [tx_hash |-> group.tx_hash,
     timestamp |-> group.entries[1].block_unix_time,
     in_flows |-> in_flows(net_token_changes(group.entries)),
     out_flows |-> out_flows(net_token_changes(group.entries)),
     token_addresses |-> token_addresses(group.entries),
     total_usd_value |-> DecRound(total_volume_usd(group.entries), Len(group.entries))]

(* ClearSwap accepting a group with in-flows or out-flows only.            *)
ClearSwap_either(group) ==
    \/ Len(in_flows(net_token_changes(group.entries))) > 0
    \/ Len(out_flows(net_token_changes(group.entries))) > 0

(* Line 65.                                                                *)
ClearSwap(group) ==
    /\ Len(in_flows(net_token_changes(group.entries))) > 0
    /\ Len(out_flows(net_token_changes(group.entries))) > 0

(* Lines 43-73: one processed event per group that is a clear swap.        *)
RECURSIVE ConsolidateGroups(_)
ConsolidateGroups(groups) ==
    IF groups = <<>> THEN <<>>
    ELSE (IF ClearSwap(Head(groups)) THEN << ProcessedEvent(Head(groups)) >> ELSE <<>>)
         \o ConsolidateGroups(Tail(groups))

(* Line 76: processed_events.sort(key=timestamp), a stable sort.           *)
RECURSIVE SortProcessed(_)
SortProcessed(events) ==
    IF events = <<>> THEN <<>>
    ELSE InsertByTimestamp(SortProcessed(SubSeq(events, 1, Len(events) - 1)),
                           events[Len(events)])

(* Lines 90-98: the while loop of one disposal over the symbol's lots.     *)
RECURSIVE Dispose(_, _, _)
Dispose(lots, amount_sold, cost_of_goods_sold) ==
    IF amount_sold > 0 /\ lots # <<>>
    THEN IF Head(lots).qty <= amount_sold
         THEN Dispose(Tail(lots), amount_sold - Head(lots).qty,
                      cost_of_goods_sold + Head(lots).qty * Head(lots).cost_per_unit)
         ELSE [lots |-> << [Head(lots) EXCEPT !.qty = @ - amount_sold] >> \o Tail(lots),
               cost_of_goods_sold |->
                   cost_of_goods_sold + amount_sold * Head(lots).cost_per_unit]
    ELSE [lots |-> lots, cost_of_goods_sold |-> cost_of_goods_sold]

(* Lines 86-101: every out-flow of the event, each against the whole       *)
(* proceeds; a disposal without cost books nothing.                        *)
RECURSIVE Disposals(_, _, _)
Disposals(outs, proceeds_from_sale, state) ==
    IF outs = <<>> THEN state
    ELSE LET d == Dispose(state.lots[Head(outs).symbol], Head(outs).change, 0)
         IN  Disposals(Tail(outs), proceeds_from_sale,
                [lots |-> [state.lots EXCEPT ![Head(outs).symbol] = d.lots],
                 realized |-> IF d.cost_of_goods_sold > 0
                              THEN state.realized + proceeds_from_sale
                                       - d.cost_of_goods_sold
                              ELSE state.realized])

(* Lines 104-108: every in-flow of the event becomes a lot at the whole    *)
(* value of the event.                                                     *)
RECURSIVE Acquisitions(_, _, _)
Acquisitions(ins, cost_of_acquisition, lots) ==
    IF ins = <<>> THEN lots
    ELSE Acquisitions(Tail(ins), cost_of_acquisition,
            IF Head(ins).change > 0
            THEN [lots EXCEPT ![Head(ins).symbol] =
                     Append(@, [qty |-> Head(ins).change,
                                cost_per_unit |-> DecRound(cost_of_acquisition,
                                                           Head(ins).change)])]
            ELSE lots)

NoAssetLots == [sym \in Symbols |-> <<>>]

(* Lines 26-28 and 39-41: the next entry of the file, put in its group.    *)
LoadEntry(tx) ==
    /\ pc = "load"
    /\ Len(transactions) < MaxEntries
    /\ transactions' = Append(transactions, tx)
    /\ grouped_by_hash' = GroupEntry(grouped_by_hash, tx)
    /\ UNCHANGED <<pc, processed_events, calc_next, asset_lots, realized_pnl>>
    /\ UNCHANGED <<unrealized_pnl, holdings_summary>>
    /\ UNCHANGED usdVars
    /\ UNCHANGED toolVars

(* Lines 33-35 and 43-76: an empty file ends the run; otherwise the groups *)
(* are consolidated and the events sorted.                                 *)
Consolidate ==
    /\ pc = "load"
    /\ transactions # <<>>
    /\ pc' = "ledger"
    /\ processed_events' = SortProcessed(ConsolidateGroups(grouped_by_hash))
    /\ calc_next' = 1
    /\ UNCHANGED <<transactions, grouped_by_hash, asset_lots, realized_pnl>>
    /\ UNCHANGED <<unrealized_pnl, holdings_summary>>
    /\ UNCHANGED usdVars
    /\ UNCHANGED toolVars

(* Lines 82-108: one event of the FIFO loop.                               *)
ProcessEvent ==
    /\ pc = "ledger"
    /\ calc_next <= Len(processed_events)
    /\ LET event == processed_events[calc_next]
           sold == Disposals(event.out_flows, event.total_usd_value,
                             [lots |-> asset_lots, realized |-> realized_pnl])
       IN  /\ realized_pnl' = sold.realized
           /\ asset_lots' = Acquisitions(event.in_flows, event.total_usd_value,
                                         sold.lots)
    /\ calc_next' = calc_next + 1
    /\ UNCHANGED <<pc, transactions, grouped_by_hash, processed_events>>
    /\ UNCHANGED <<unrealized_pnl, holdings_summary>>
    /\ UNCHANGED usdVars
    /\ UNCHANGED toolVars

(* Line 115: sum(lot['qty'] for lot in lots).                              *)
RECURSIVE total_qty(_)
total_qty(lots) ==
    IF lots = <<>> THEN 0 ELSE Head(lots).qty + total_qty(Tail(lots))

(* Line 119: sum(lot['qty'] * lot['cost_per_unit'] for lot in lots).       *)
RECURSIVE total_cost_basis(_)
total_cost_basis(lots) ==
    IF lots = <<>> THEN 0
    ELSE Head(lots).qty * Head(lots).cost_per_unit + total_cost_basis(Tail(lots))

(* What get_current_price can answer, lines 9-21: a price, or None (here   *)
(* 0) when the request fails or the value is missing.                      *)
CurrentPrices == {0, 2 * DecScale}

(* Line 116: the symbols still held.                                       *)
Held(lots) == {symbol \in Symbols : total_qty(lots[symbol]) >= Eps}

(* Lines 122-123: the address is looked up in the token_addresses of the   *)
(* last event of the FIFO loop; a symbol that is not there has no price.   *)
current_price(symbol, prices) ==
    IF symbol \in processed_events[Len(processed_events)].token_addresses
    THEN prices[symbol] ELSE 0

(* Lines 125-132: one line per symbol held.                                *)
HoldingLine(symbol, lots, price) ==
    [total_qty |-> total_qty(lots),
     avg_cost_basis |-> DecRound(total_cost_basis(lots), total_qty(lots)),
     current_price |-> price,
     price_known |-> price # 0,
     pnl |-> IF price # 0 THEN total_qty(lots) * price - total_cost_basis(lots) ELSE 0]

(* Line 128: unrealized_pnl += pnl, over the symbols with a price.         *)
RECURSIVE SumPnl(_, _)
SumPnl(lines, symbols) ==
    IF symbols = {} THEN 0
    ELSE LET symbol == CHOOSE x \in symbols : TRUE
         IN  lines[symbol].pnl + SumPnl(lines, symbols \ {symbol})

(* Lines 110-147: the loop is over; the current prices are fetched and the *)
(* report is printed.                                                      *)
Report ==
    /\ pc = "ledger"
    /\ calc_next > Len(processed_events)
    /\ pc' = "report"
    /\ \E prices \in [Symbols -> CurrentPrices] :
           LET lines == [symbol \in Held(asset_lots) |->
                            HoldingLine(symbol, asset_lots[symbol],
                                        current_price(symbol, prices))]
           IN  /\ holdings_summary' = lines
               /\ unrealized_pnl' = SumPnl(lines, Held(asset_lots))
    /\ UNCHANGED <<transactions, grouped_by_hash, processed_events, calc_next,
                   asset_lots, realized_pnl>>
    /\ UNCHANGED usdVars
    /\ UNCHANGED toolVars

-----------------------------------------------------------------------------
(* pnl_manual_verifier.run_pnl_verification                                *)

(* Lines 21-24: the entries of the file, grouped by tx_hash.               *)
RECURSIVE VerifierGroups(_)
VerifierGroups(txs) ==
    IF txs = <<>> THEN <<>>
    ELSE GroupEntry(VerifierGroups(SubSeq(txs, 1, Len(txs) - 1)), txs[Len(txs)])

(* Lines 43-49: the processed event of a group; it has no token_addresses. *)
VerifierEvent(group) ==
    [tx_hash |-> group.tx_hash,
     timestamp |-> group.entries[1].block_unix_time,
     in_flows |-> in_flows(net_token_changes(group.entries)),
     out_flows |-> out_flows(net_token_changes(group.entries)),
     total_usd_value |-> DecRound(total_volume_usd(group.entries), Len(group.entries))]

(* Lines 26-49: one processed event per group that is a clear swap.        *)
RECURSIVE VerifierEvents(_)
VerifierEvents(groups) ==
    IF groups = <<>> THEN <<>>
    ELSE (IF ClearSwap(Head(groups)) THEN << VerifierEvent(Head(groups)) >> ELSE <<>>)
         \o VerifierEvents(Tail(groups))

(* Lines 74-96: the out-flows of one event; cost_of_goods_sold runs over   *)
(* all of them, and an out-flow without lots adds the whole proceeds to    *)
(* it.                                                                     *)
RECURSIVE VerifierDisposals(_, _, _)
VerifierDisposals(outs, proceeds_from_sale, state) ==
    IF outs = <<>> THEN state
    ELSE IF state.lots[Head(outs).symbol] = <<>>
    THEN VerifierDisposals(Tail(outs), proceeds_from_sale,
            [state EXCEPT !.cost_of_goods_sold = @ + proceeds_from_sale])
    ELSE LET d == Dispose(state.lots[Head(outs).symbol], Head(outs).change,
                          state.cost_of_goods_sold)
         IN  VerifierDisposals(Tail(outs), proceeds_from_sale,
                [lots |-> [state.lots EXCEPT ![Head(outs).symbol] = d.lots],
                 cost_of_goods_sold |-> d.cost_of_goods_sold])

(* Lines 63-110: one event of the loop: the PNL of the event is booked     *)
(* once, whatever its cost, and the in-flows become lots.                  *)
VerifierStep(state, event) ==
    LET sold == VerifierDisposals(event.out_flows, event.total_usd_value,
                                  [lots |-> state.asset_lots, cost_of_goods_sold |-> 0])
    IN  [asset_lots |-> Acquisitions(event.in_flows, event.total_usd_value, sold.lots),
         realized_pnl |-> state.realized_pnl
                              + (event.total_usd_value - sold.cost_of_goods_sold)]

(* Lines 55-110: the loop over the sorted events.                          *)
RECURSIVE VerifierLoop(_)
VerifierLoop(events) ==
    IF events = <<>> THEN [asset_lots |-> NoAssetLots, realized_pnl |-> 0]
    ELSE VerifierStep(VerifierLoop(SubSeq(events, 1, Len(events) - 1)),
                      events[Len(events)])

(* Lines 20-122: the events, the lots and the realized PNL the verifier    *)
(* ends with on a file.                                                    *)
run_pnl_verification(txs) ==
    LET events == SortProcessed(VerifierEvents(VerifierGroups(txs)))
    IN  [processed_events |-> events,
         asset_lots |-> VerifierLoop(events).asset_lots,
         realized_pnl |-> VerifierLoop(events).realized_pnl]

(* pnl_manual_verifier.py line 125: the verifier is run on the file that   *)
(* calculate_pnl has reported on.                                          *)
Verify ==
    /\ pc = "report"
    /\ pc' = "verified"
    /\ verification' = run_pnl_verification(transactions)
    /\ UNCHANGED <<transactions, audit, net_summary, fetchVars>>
    /\ UNCHANGED usdVars
    /\ UNCHANGED calcVars

-----------------------------------------------------------------------------
(* DeepTransactionAnalyzer.fetch_and_save_transactions                     *)

batch_size == 2       \* line 27 (100 in the script)

Min(x, y) == IF x < y THEN x ELSE y

(* current_limit asking for a whole batch whatever is still wanted.        *)
current_limit_whole_batch(collected) == batch_size

(* Lines 33-34: the limit of the next request.                             *)
current_limit(collected) == Min(batch_size, max_transactions - collected)

(* What the API can answer to a request, lines 43-48: a failure status, a  *)
(* body with success = false, or a batch of items, which may be empty,     *)
(* shorter than the limit or longer than it.                               *)
Response(status_code, success, items, limit) ==
    [status_code |-> status_code, success |-> success, items |-> items,
     limit |-> limit, offset |-> offset]

Answers(limit) ==
    {Response(500, FALSE, 0, limit), Response(200, FALSE, 0, limit)}
    \cup {Response(200, TRUE, n, limit) : n \in 0..(limit + 1)}

(* Lines 45-60: the response stops the loop.                               *)
Breaks(response) ==
    \/ response.status_code # 200
    \/ ~response.success
    \/ response.items = 0

(* The items of a batch: the records at the positions after the offset.    *)
Batch(response) == [i \in 1..response.items |-> response.offset + i]

(* Lines 32-65: one iteration of the while loop: the request, and what the *)
(* response leads to.                                                      *)
FetchBatch ==
    /\ pc = "request"
    /\ Len(transactions) < max_transactions
    /\ \E response \in Answers(current_limit(Len(transactions))) :
           /\ responses' = Append(responses, response)
           /\ IF Breaks(response)
              THEN /\ pc' = "save"
                   /\ UNCHANGED <<transactions, offset>>
              ELSE /\ transactions' = transactions \o Batch(response)
                   /\ offset' = offset + response.items
                   /\ pc' = IF response.items < response.limit
                            THEN "save" ELSE "request"
    /\ UNCHANGED max_transactions
    /\ UNCHANGED <<audit, net_summary, verification>>
    /\ UNCHANGED usdVars
    /\ UNCHANGED calcVars

(* Lines 32 and 67-82: the loop is over, by its condition or by a break;   *)
(* what was collected is saved and returned.                               *)
SaveTransactions ==
    /\ \/ pc = "save"
       \/ pc = "request" /\ Len(transactions) >= max_transactions
    /\ pc' = "saved"
    /\ UNCHANGED transactions
    /\ UNCHANGED usdVars
    /\ UNCHANGED calcVars
    /\ UNCHANGED toolVars

-----------------------------------------------------------------------------
(* consolidate_transactions.consolidate_transactions                       *)

IsNetChange(c) == Abs(c.change) > Eps

(* Line 38: the net changes beyond the tolerance.                          *)
final_changes(net) == SelectSeq(net, IsNetChange)

(* Lines 21-46: the summary of one group.                                  *)
NetSummary(group) ==
    [tx_hash |-> group.tx_hash,
     block_unix_time |-> group.entries[1].block_unix_time,
     net_token_changes |-> final_changes(net_token_changes(group.entries)),
     original_entries_count |-> Len(group.entries)]

(* Lines 10-11: the next entry of the groups file, in its group.           *)
ReadGroupEntry(tx) ==
    /\ pc = "read"
    /\ Len(transactions) < MaxGroup
    /\ transactions' = Append(transactions, tx)
    /\ grouped_by_hash' = GroupEntry(grouped_by_hash, tx)
    /\ UNCHANGED <<pc, processed_events, calc_next, asset_lots, realized_pnl,
                   unrealized_pnl, holdings_summary>>
    /\ UNCHANGED usdVars
    /\ UNCHANGED toolVars

(* Lines 19-50: every group is summarised.                                 *)
Summarize ==
    /\ pc = "read"
    /\ pc' = "summary"
    /\ net_summary' = [i \in 1..Len(grouped_by_hash) |-> NetSummary(grouped_by_hash[i])]
    /\ UNCHANGED <<transactions, audit, verification, fetchVars>>
    /\ UNCHANGED usdVars
    /\ UNCHANGED calcVars

-----------------------------------------------------------------------------
(* Input records                                                           *)

SwapRecord(hash, time, quote, base) ==
    [tx_hash |-> hash, block_unix_time |-> time, quote |-> quote, base |-> base]

(* Records fed to the ledger: SOL/A, SOL/B and A/B swaps in both           *)
(* directions at two block times, and at the first block time a SOL/A      *)
(* record whose received side is zero and one whose two sides are both     *)
(* negative.                                                               *)
LedgerPairs == {<<SOL, "A">>, <<SOL, "B">>, <<"A", "B">>}
LedgerChanges == {<<-2, 3>>, <<2, -3>>, <<2, -1>>}
MalformedChanges == {<<-2, 0>>, <<-2, -1>>}
LedgerTimes == {1, 2}

(* The transaction signatures, in ascending order.                         *)
HashOrder == <<"h1", "h2", "h3", "h4", "h5", "h6">>

(* One signature per block time and pair: the records of one pair at one   *)
(* block time are entries of the same transaction.                         *)
LedgerHash(p, t) ==
    LET k == IF p = <<SOL, "A">> THEN 1 ELSE IF p = <<SOL, "B">> THEN 2 ELSE 3
    IN  HashOrder[IF t = 1 THEN k ELSE 7 - k]

LedgerTxs ==
    {SwapRecord(LedgerHash(p, t), t, Leg(p[1], c[1], DecScale),
                Leg(p[2], c[2], DecScale)) :
        p \in LedgerPairs, c \in LedgerChanges, t \in LedgerTimes}
    \cup
    {SwapRecord(LedgerHash(<<SOL, "A">>, 1), 1, Leg(SOL, c[1], DecScale),
                Leg("A", c[2], DecScale)) :
        c \in MalformedChanges}

NoLots == [m \in Mints |-> <<>>]

InitCalc ==
    /\ grouped_by_hash = <<>>
    /\ processed_events = <<>>
    /\ calc_next = 0
    /\ asset_lots = NoAssetLots
    /\ realized_pnl = 0
    /\ unrealized_pnl = 0
    /\ holdings_summary = <<>>

InitTools ==
    /\ audit = <<>>
    /\ net_summary = <<>>
    /\ verification = <<>>
    /\ max_transactions = 0
    /\ offset = 0
    /\ responses = <<>>

InitUsd ==
    /\ all_events = <<>>
    /\ sorted_events = <<>>
    /\ next_event = 0
    /\ positions = NoLots
    /\ realized_pnl_usd = 0
    /\ total_invested_usd = 0
    /\ total_withdrawn_usd = 0
    /\ buy_count = 0
    /\ sell_count = 0
    /\ total_cost_basis_usd = 0
    /\ pnl_usd = 0
    /\ warnings = <<>>
    /\ current_positions = <<>>
    /\ unrealized_pnl_usd = 0

Init ==
    /\ pc = "parse"
    /\ transactions = <<>>
    /\ InitUsd
    /\ InitCalc
    /\ InitTools

ParseTransaction == \E tx \in LedgerTxs : ParseNext(tx)

Next ==
    \/ ParseTransaction
    \/ BeginFifo
    \/ ApplyBuy
    \/ SellWithoutPosition
    \/ ApplySell
    \/ FinishFifo

Spec == Init /\ [][Next]_vars

-----------------------------------------------------------------------------
(* parse_transaction_to_events on one record drawn from ParseTxs           *)

ParseChanges == {-2, -1, 0, 1, 2}
ParsePrices == {0, DecScale, 2 * DecScale}

ParseTxs ==
    {SwapRecord("h", 1, HintedLeg(qa, qc, qp, qh), HintedLeg(ba, bc, bp, bh)) :
        qa \in Mints, ba \in Mints, qc \in ParseChanges, bc \in ParseChanges,
        qp \in ParsePrices, bp \in ParsePrices, qh \in TypeSwaps, bh \in TypeSwaps}

InitParse ==
    /\ pc = "sample"
    /\ transactions \in {<<tx>> : tx \in ParseTxs}
    /\ InitUsd
    /\ InitCalc
    /\ InitTools

ParseSample ==
    /\ pc = "sample"
    /\ pc' = "parsed"
    /\ all_events' = parse_transaction_to_events(transactions[1])
    /\ UNCHANGED <<transactions, sorted_events, next_event, positions,
                   realized_pnl_usd, total_invested_usd, total_withdrawn_usd,
                   buy_count, sell_count, total_cost_basis_usd, pnl_usd, warnings>>
    /\ UNCHANGED <<current_positions, unrealized_pnl_usd>>
    /\ UNCHANGED calcVars
    /\ UNCHANGED toolVars

(* ImplementationAuditor.audit_transaction_interpretation, line 145: the   *)
(* direction of the same record as the audit determines it.                *)
AuditSample ==
    /\ pc = "parsed"
    /\ pc' = "audited"
    /\ audit' = determine_actual_direction(transactions[1])
    /\ UNCHANGED <<transactions, net_summary, verification, fetchVars>>
    /\ UNCHANGED usdVars
    /\ UNCHANGED calcVars

NextParse ==
    \/ ParseSample
    \/ AuditSample

SpecParse == InitParse /\ [][NextParse]_vars


-----------------------------------------------------------------------------
(* calculate_pnl on a file of up to MaxEntries ledger entries              *)

Hashes == {"h1", "h2"}

(* All entries of a transaction carry the block time of the transaction.   *)
BlockTime(hash) == IF hash = "h1" THEN 2 ELSE 1

EntryLeg(symbol, change) ==
    [symbol |-> symbol, address |-> symbol, ui_change_amount |-> change]

Entry(hash, ins, volume, base, quote) ==
    [tx_hash |-> hash, ins_index |-> ins, block_unix_time |-> BlockTime(hash),
     volume_usd |-> volume, base |-> base, quote |-> quote]

EntryPairs == {<<"A", "B">>, <<"B", "C">>}
BaseChanges == {-2, 2}
QuoteChanges == {-2, 3}
InsIndexes == {0, 1}
(* The volume_usd of an entry: 2 USD moved by the first instruction of a   *)
(* transaction, 4 USD by the second.                                       *)
VolumeOf(ins) == IF ins = 0 THEN 2 * DecScale ELSE 4 * DecScale

Entries ==
    {Entry(h, i, VolumeOf(i), EntryLeg(p[1], bc), EntryLeg(p[2], qc)) :
        h \in Hashes, i \in InsIndexes, p \in EntryPairs,
        bc \in BaseChanges, qc \in QuoteChanges}

InitCalcRun ==
    /\ pc = "load"
    /\ transactions = <<>>
    /\ InitUsd
    /\ InitCalc
    /\ InitTools

LoadTransaction == \E tx \in Entries : LoadEntry(tx)

NextCalc ==
    \/ LoadTransaction
    \/ Consolidate
    \/ ProcessEvent
    \/ Report

SpecCalc == InitCalcRun /\ [][NextCalc]_vars

(* calculate_pnl, then run_pnl_verification, on the same file.             *)
NextVerify ==
    \/ LoadTransaction
    \/ Consolidate
    \/ ProcessEvent
    \/ Report
    \/ Verify

SpecVerify == InitCalcRun /\ [][NextVerify]_vars

-----------------------------------------------------------------------------
(* PythonPnLCalculator.parse_transaction_to_events on one record drawn     *)
(* from ParseTxs                                                           *)

(* python_pnl_reference.py, run_full_analysis lines 327-329, for one       *)
(* record.                                                                 *)
ParseSolSample ==
    /\ pc = "sample"
    /\ pc' = "parsed"
    /\ all_events' = sol_parse_transaction_to_events(transactions[1])
    /\ UNCHANGED <<transactions, sorted_events, next_event, positions,
                   realized_pnl_usd, total_invested_usd, total_withdrawn_usd,
                   buy_count, sell_count, total_cost_basis_usd, pnl_usd, warnings>>
    /\ UNCHANGED <<current_positions, unrealized_pnl_usd>>
    /\ UNCHANGED calcVars
    /\ UNCHANGED toolVars

NextSolParse == ParseSolSample

SpecSolParse == InitParse /\ [][NextSolParse]_vars

-----------------------------------------------------------------------------
(* consolidate_transactions on groups of up to MaxGroup entries            *)

(* Entries of transactions that move a large amount of A in and out and a  *)
(* small amount of A in, against B.                                        *)
GroupBaseChanges == {2, 32, -32}
GroupQuoteChanges == {-3, 3}

GroupEntries ==
    {Entry(h, 0, 2 * DecScale, EntryLeg("A", bc), EntryLeg("B", qc)) :
        h \in Hashes, bc \in GroupBaseChanges, qc \in GroupQuoteChanges}

InitConsolidate ==
    /\ pc = "read"
    /\ transactions = <<>>
    /\ InitUsd
    /\ InitCalc
    /\ InitTools

ReadGroups == \E tx \in GroupEntries : ReadGroupEntry(tx)

NextConsolidate ==
    \/ ReadGroups
    \/ Summarize

SpecConsolidate == InitConsolidate /\ [][NextConsolidate]_vars

-----------------------------------------------------------------------------
(* fetch_and_save_transactions asked for up to MaxRequested records        *)

InitFetch ==
    /\ pc = "request"
    /\ transactions = <<>>
    /\ InitUsd
    /\ InitCalc
    /\ audit = <<>>
    /\ net_summary = <<>>
    /\ verification = <<>>
    /\ max_transactions \in 1..MaxRequested
    /\ offset = 0
    /\ responses = <<>>

NextFetch ==
    \/ FetchBatch
    \/ SaveTransactions

(* The script runs on: every request is answered and the loop goes on      *)
(* while it can.                                                           *)
SpecFetch == InitFetch /\ [][NextFetch]_vars /\ WF_vars(NextFetch)

-----------------------------------------------------------------------------
(* run_full_analysis on records of very different value                    *)

(* Purchases and sales of one unit of A, priced 0.004, and of one unit of  *)
(* B, priced 100, against SOL, at two block times.                         *)
ValuedPrice(mint) == IF mint = "A" THEN 4 ELSE 100 * DecScale
ValuedChanges == {<<-2, 1>>, <<2, -1>>}

ValuedTxs ==
    {SwapRecord(LedgerHash(<<SOL, m>>, t), t, Leg(SOL, c[1], DecScale),
                Leg(m, c[2], ValuedPrice(m))) :
        m \in {"A", "B"}, c \in ValuedChanges, t \in LedgerTimes}

ParseValued == \E tx \in ValuedTxs : ParseNext(tx)

NextValued ==
    \/ ParseValued
    \/ BeginFifo
    \/ ApplyBuy
    \/ SellWithoutPosition
    \/ ApplySell
    \/ FinishFifo

SpecValued == Init /\ [][NextValued]_vars

-----------------------------------------------------------------------------
(* Properties of parse_transaction_to_events (SpecParse)                   *)

Tx == transactions[1]

Parsed == pc = "parsed"

OppositeSigns(tx) ==
    \/ tx.quote.ui_change_amount < 0 /\ tx.base.ui_change_amount > 0
    \/ tx.quote.ui_change_amount > 0 /\ tx.base.ui_change_amount < 0

(* The leg with the negative net change and the leg with the positive one. *)
GivenUp(tx) == IF tx.quote.ui_change_amount < 0 THEN tx.quote ELSE tx.base
Received(tx) == IF tx.quote.ui_change_amount < 0 THEN tx.base ELSE tx.quote

TokenToToken(tx) == tx.quote.address # SOL /\ tx.base.address # SOL

OneSideSol(tx) ==
    /\ tx.quote.address # tx.base.address
    /\ tx.quote.address = SOL \/ tx.base.address = SOL

SolLeg(tx) == IF tx.quote.address = SOL THEN tx.quote ELSE tx.base
TokenLeg(tx) == IF tx.quote.address = SOL THEN tx.base ELSE tx.quote

(* C1: for every record with SOL on neither side, parse emits a SELL and a *)
(* BUY whose usd_value are the same number, whatever the prices and        *)
(* amounts of the two legs.                                                *)
C1_ValueConservation ==
    (Parsed /\ TokenToToken(Tx)) =>
        /\ Len(all_events) = 2
        /\ all_events[1].event_type = "SELL"
        /\ all_events[2].event_type = "BUY"
        /\ all_events[1].usd_value = all_events[2].usd_value

(* A parsed token-to-token swap whose two legs are worth different amounts *)
(* at their own prices.                                                    *)
C1_Witness ==
    /\ Parsed /\ TokenToToken(Tx) /\ OppositeSigns(Tx)
    /\ Tx.quote.address # Tx.base.address
    /\ Abs(Tx.quote.ui_change_amount) * Tx.quote.price
         # Abs(Tx.base.ui_change_amount) * Tx.base.price
    /\ Len(all_events) = 2
    /\ all_events[1].usd_value > 0

C9_MalformedRejected ==
    (Parsed /\ ~OppositeSigns(Tx)) => all_events = <<>>

Audited == pc = "audited"

(* The same record with other direction hints.                             *)
WithHints(tx, quote_hint, base_hint) ==
    [tx EXCEPT !.quote.type_swap = quote_hint, !.base.type_swap = base_hint]

(* C12: the events of a record and the direction the audit reads from it   *)
(* are the same whatever the type_swap hints of its two sides; when the    *)
(* two changes have opposite signs, every SELL is of the side whose change *)
(* is negative and every BUY of the side whose change is positive, for the *)
(* magnitude of that change, even when the hints say the opposite.         *)
C12_HintsIgnored ==
    Audited =>
        /\ \A qh \in TypeSwaps, bh \in TypeSwaps :
               /\ parse_transaction_to_events(WithHints(Tx, qh, bh)) = all_events
               /\ determine_actual_direction(WithHints(Tx, qh, bh)).spent_token
                      = audit.spent_token
               /\ determine_actual_direction(WithHints(Tx, qh, bh)).received_token
                      = audit.received_token
        /\ OppositeSigns(Tx) =>
               /\ audit.spent_token = GivenUp(Tx).symbol
               /\ audit.received_token = Received(Tx).symbol
               /\ \A i \in 1..Len(all_events) :
                      IF all_events[i].event_type = "SELL"
                      THEN /\ all_events[i].token_mint = GivenUp(Tx).address
                           /\ all_events[i].token_amount
                                  = Abs(GivenUp(Tx).ui_change_amount)
                      ELSE /\ all_events[i].token_mint = Received(Tx).address
                           /\ all_events[i].token_amount
                                  = Abs(Received(Tx).ui_change_amount)

(* A token-to-token record whose quote side lost tokens but is hinted      *)
(* "to", and whose base side gained tokens but is hinted "from": the SELL  *)
(* is still of the quote token, and the audit flags the inconsistency.     *)
C12_Witness ==
    /\ Audited /\ OppositeSigns(Tx) /\ TokenToToken(Tx)
    /\ Tx.quote.address # Tx.base.address
    /\ Tx.quote.ui_change_amount < 0
    /\ Tx.quote.type_swap = "to" /\ Tx.base.type_swap = "from"
    /\ Len(all_events) = 2
    /\ all_events[1].event_type = "SELL"
    /\ all_events[1].token_mint = Tx.quote.address
    /\ all_events[2].token_mint = Tx.base.address
    /\ audit.spent_token = Tx.quote.symbol
    /\ ~audit.consistent

(* C20: in the SOL-domain reference, the SELL and the BUY of a record with *)
(* SOL on neither side carry the same sol_amount.                          *)
C20_SolValueConservation ==
    (Parsed /\ TokenToToken(Tx)) =>
        /\ Len(all_events) = 2
        /\ all_events[1].event_type = "SELL"
        /\ all_events[2].event_type = "BUY"
        /\ all_events[1].sol_amount = all_events[2].sol_amount

-----------------------------------------------------------------------------
(* Properties of the FIFO ledger of calculate_fifo_pnl (Spec)              *)

(* The loop is about to apply a SELL.                                      *)
AtSell == InLoop /\ CurrentEvent.event_type = "SELL"

Lots(mint) == positions[mint]

OtherLotsUnchanged(mint) ==
    \A m \in Mints : m # mint => positions'[m] = positions[m]

AppliedBuys ==
    {i \in 1..(next_event - 1) : sorted_events[i].event_type = "BUY"}

AtPartialSell ==
    /\ AtSell
    /\ Lots(CurrentEvent.token_mint) # <<>>
    /\ Head(Lots(CurrentEvent.token_mint)).quantity > CurrentEvent.token_amount

FrontLot == Head(Lots(CurrentEvent.token_mint))

(* (s/q) x total cost of the front lot, as Decimal computes it.            *)
ProportionalCost ==
    DecMul(DecRound(CurrentEvent.token_amount * DecScale, FrontLot.quantity),
           FrontLot.total_cost_usd)

(* The quotients and the product of the partial sale are exact.            *)
ExactPartial ==
    /\ FrontLot.total_cost_usd = FrontLot.quantity * FrontLot.cost_per_token_usd
    /\ (CurrentEvent.token_amount * DecScale) % FrontLot.quantity = 0
    /\ (((CurrentEvent.token_amount * DecScale) \div FrontLot.quantity)
            * FrontLot.total_cost_usd) % DecScale = 0

LedgerStarted == pc \in {"fifo", "done"}

(* How many times an event occurs in a list.                               *)
Occurrences(events, e) == Cardinality({i \in 1..Len(events) : events[i] = e})

(* C13: the ledger loop runs over the events of the input, each as often   *)
(* as the input holds it, in non-decreasing timestamp order whatever the   *)
(* order of the input: an event is never applied after one with a          *)
(* strictly greater timestamp.                                             *)
C13_AppliedInTimeOrder ==
    LedgerStarted =>
        /\ Len(sorted_events) = Len(all_events)
        /\ \A i \in 1..Len(all_events) :
               Occurrences(sorted_events, all_events[i])
                   = Occurrences(all_events, all_events[i])
        /\ \A i \in 1..Len(sorted_events) : \A j \in 1..Len(sorted_events) :
               i < j => sorted_events[i].timestamp <= sorted_events[j].timestamp
        /\ next_event \in 1..(Len(sorted_events) + 1)
        /\ pc = "done" => next_event = Len(sorted_events) + 1

(* The input lists a record of block time 2 before one of block time 1,    *)
(* and the ledger has applied all their events, those of time 1 first.     *)
C13_Witness ==
    /\ pc = "done"
    /\ Len(transactions) = 2
    /\ transactions[1].block_unix_time = 2
    /\ transactions[2].block_unix_time = 1
    /\ all_events[1].timestamp = 2
    /\ sorted_events[1].timestamp = 1
    /\ sorted_events[Len(sorted_events)].timestamp = 2
    /\ buy_count + sell_count = Len(all_events)

(* Rank of a transaction signature in ascending order.                     *)
HashRank(hash) == CHOOSE k \in 1..Len(HashOrder) : HashOrder[k] = hash

(* C14: events of equal timestamp are applied in ascending tx_hash order   *)
(* whatever their order in the input, and the SELL of a token-to-token     *)
(* record is applied before its BUY.                                       *)
C14_TiesByTxHash ==
    LedgerStarted =>
        /\ \A i \in 1..Len(sorted_events) : \A j \in 1..Len(sorted_events) :
               (i < j /\ sorted_events[i].timestamp = sorted_events[j].timestamp) =>
                   HashRank(sorted_events[i].tx_hash)
                       <= HashRank(sorted_events[j].tx_hash)
        /\ \A k \in 1..Len(transactions) :
               Len(parse_transaction_to_events(transactions[k])) = 2 =>
                   \E i \in 1..Len(sorted_events) : \E j \in 1..Len(sorted_events) :
                       /\ i < j
                       /\ sorted_events[i] = parse_transaction_to_events(transactions[k])[1]
                       /\ sorted_events[j] = parse_transaction_to_events(transactions[k])[2]

(* A SELL of more units than the token's lots, all of positive quantity,   *)
(* hold together.                                                          *)
AtOversell ==
    /\ AtSell
    /\ Lots(CurrentEvent.token_mint) # <<>>
    /\ \A i \in 1..Len(Lots(CurrentEvent.token_mint)) :
           Lots(CurrentEvent.token_mint)[i].quantity > 0
    /\ TotalQuantity(Lots(CurrentEvent.token_mint)) < CurrentEvent.token_amount

(* What a SELL beyond the holdings does to the ledger: every lot of the    *)
(* token is consumed, the cost basis is the total cost of those lots, the  *)
(* loop goes on.                                                           *)
OversellConsumesAll ==
    /\ positions'[CurrentEvent.token_mint] = <<>>
    /\ OtherLotsUnchanged(CurrentEvent.token_mint)
    /\ total_cost_basis_usd' = TotalCost(Lots(CurrentEvent.token_mint))
    /\ realized_pnl_usd' = realized_pnl_usd + CurrentEvent.usd_value
                               - TotalCost(Lots(CurrentEvent.token_mint))
    /\ next_event' = next_event + 1
    /\ pc' = "fifo"

(* C15: a SELL of more units than the token's positive holdings consumes   *)
(* every lot of the token, has the total cost of those lots as cost basis  *)
(* (nothing for the shortfall), leaves the queue empty, adds a diagnostic  *)
(* and lets the loop go on.                                                *)
C15_ShortfallFlagged ==
    [][AtOversell => (OversellConsumesAll /\ warnings' # warnings)]_vars

(* Sum of the usd_value of the events of one type among the first n.       *)
RECURSIVE SumValue(_, _, _)
SumValue(events, n, type) ==
    IF n = 0 THEN 0
    ELSE SumValue(events, n - 1, type)
         + (IF events[n].event_type = type THEN events[n].usd_value ELSE 0)

(* C16: total invested is the sum of the values of the BUY events applied  *)
(* and total withdrawn the sum of the values of the SELL events applied,   *)
(* those without lots or with too few lots included; once the loop is over *)
(* they are the sums over all BUY and all SELL events of the input.        *)
C16_TotalsAreSums ==
    LedgerStarted =>
        /\ total_invested_usd = SumValue(sorted_events, next_event - 1, "BUY")
        /\ total_withdrawn_usd = SumValue(sorted_events, next_event - 1, "SELL")
        /\ pc = "done" =>
               /\ total_invested_usd = SumValue(all_events, Len(all_events), "BUY")
               /\ total_withdrawn_usd = SumValue(all_events, Len(all_events), "SELL")

(* A finished run with a SELL skipped for lack of lots, a SELL beyond the  *)
(* lots of its token and a BUY: all three are in the totals.               *)
C16_Witness ==
    /\ pc = "done"
    /\ Len(warnings) = 1
    /\ sell_count = 2
    /\ buy_count >= 1
    /\ \E i \in 1..Len(sorted_events) :
           /\ sorted_events[i].event_type = "SELL"
           /\ sorted_events[i].token_mint # warnings[1]
           /\ positions[sorted_events[i].token_mint] = <<>>
           /\ \E j \in 1..(i - 1) :
                  /\ sorted_events[j].event_type = "BUY"
                  /\ sorted_events[j].token_mint = sorted_events[i].token_mint
                  /\ sorted_events[j].token_amount > 0
                  /\ sorted_events[j].token_amount < sorted_events[i].token_amount
    /\ total_withdrawn_usd > 0
    /\ total_invested_usd > 0

(* C17: when the run ends with open positions, for which the calculator   *)
(* has no current price, the unrealized P&L of the result is not the       *)
(* number 0.                                                               *)
C17_UnknownNotZero ==
    (pc = "done" /\ DOMAIN current_positions # {}) => unrealized_pnl_usd # 0

-----------------------------------------------------------------------------
(* Properties of the consolidation of calculate_pnl (SpecCalc)             *)

Consolidated == pc \in {"ledger", "report"}

(* What one entry moves of a symbol under a tx_hash.                       *)
Movement(tx, hash, symbol) ==
    IF tx.tx_hash # hash THEN 0
    ELSE (IF tx.base.symbol = symbol THEN tx.base.ui_change_amount ELSE 0)
         + (IF tx.quote.symbol = symbol THEN tx.quote.ui_change_amount ELSE 0)

(* Sum of the signed ui_change_amount of a symbol over every leg of every  *)
(* entry of the list that carries the tx_hash.                             *)
RECURSIVE NetSum(_, _, _)
NetSum(txs, hash, symbol) ==
    IF txs = <<>> THEN 0
    ELSE NetSum(Tail(txs), hash, symbol) + Movement(Head(txs), hash, symbol)

(* The list without the later copies of an entry already in it.            *)
RECURSIVE WithoutDuplicates(_)
WithoutDuplicates(txs) ==
    IF txs = <<>> THEN <<>>
    ELSE LET front == WithoutDuplicates(SubSeq(txs, 1, Len(txs) - 1))
             last == txs[Len(txs)]
         IN  IF \E i \in 1..Len(front) : front[i] = last
             THEN front ELSE Append(front, last)

(* A net change beyond the tolerance, else nothing.                        *)
BeyondTolerance(c) == IF c > Eps \/ c < -Eps THEN c ELSE 0

(* The signed net change a processed event records for a symbol.           *)
FlowOf(event, symbol) ==
    LET ins == {i \in 1..Len(event.in_flows) : event.in_flows[i].symbol = symbol}
        outs == {i \in 1..Len(event.out_flows) : event.out_flows[i].symbol = symbol}
    IN  IF ins # {} THEN event.in_flows[CHOOSE i \in ins : TRUE].change
        ELSE IF outs # {} THEN -event.out_flows[CHOOSE i \in outs : TRUE].change
        ELSE 0

InputHashes == {transactions[i].tx_hash : i \in 1..Len(transactions)}

EventHashes == {processed_events[i].tx_hash : i \in 1..Len(processed_events)}

EntriesOf(hash) == {i \in 1..Len(transactions) : transactions[i].tx_hash = hash}

C6_DuplicatesNotSummed ==
    Consolidated =>
        \A i \in 1..Len(processed_events) : \A symbol \in Symbols :
            FlowOf(processed_events[i], symbol)
                = BeyondTolerance(NetSum(WithoutDuplicates(transactions),
                                         processed_events[i].tx_hash, symbol))

(* The transaction nets an asset out and an asset in, beyond tolerance.    *)
NetBothSides(hash) ==
    /\ \E symbol \in Symbols : NetSum(transactions, hash, symbol) > Eps
    /\ \E symbol \in Symbols : NetSum(transactions, hash, symbol) < -Eps

(* C10: a transaction without a net-negative or without a net-positive     *)
(* asset (beyond the tolerance) gives no processed event, so the FIFO loop *)
(* never sees it; every other transaction of the file gives exactly one    *)
(* event, and the loop runs over all of them.                              *)
C10_DegenerateExcluded ==
    Consolidated =>
        /\ EventHashes = {hash \in InputHashes : NetBothSides(hash)}
        /\ Len(processed_events) = Cardinality(EventHashes)
        /\ calc_next \in 1..(Len(processed_events) + 1)
        /\ pc = "report" => calc_next = Len(processed_events) + 1

(* A file with a degenerate first transaction and a proper second one: the *)
(* report is reached with the second one alone applied by the FIFO loop.  *)
C10_Witness ==
    /\ pc = "report"
    /\ Len(transactions) = 2
    /\ transactions[1].tx_hash # transactions[2].tx_hash
    /\ ~NetBothSides(transactions[1].tx_hash)
    /\ Len(processed_events) = 1
    /\ processed_events[1].tx_hash = transactions[2].tx_hash
    /\ calc_next = 2
    /\ \E symbol \in Symbols : asset_lots[symbol] # <<>>

(* Sum of the volume_usd of the entries of the list that carry the tx_hash. *)
RECURSIVE VolumeSum(_, _)
VolumeSum(txs, hash) ==
    IF txs = <<>> THEN 0
    ELSE VolumeSum(Tail(txs), hash)
         + (IF Head(txs).tx_hash = hash THEN Head(txs).volume_usd ELSE 0)

(* C18: the total_usd_value of a processed event is the sum of the         *)
(* volume_usd of the distinct entries of its transaction, not their mean.  *)
C18_NotionalIsSum ==
    Consolidated =>
        \A i \in 1..Len(processed_events) :
            processed_events[i].total_usd_value
                = VolumeSum(WithoutDuplicates(transactions), processed_events[i].tx_hash)

-----------------------------------------------------------------------------
(* Sign partition of the processed events (SpecCalc)                       *)

InFlowSymbols(event) ==
    {event.in_flows[i].symbol : i \in 1..Len(event.in_flows)}

OutFlowSymbols(event) ==
    {event.out_flows[i].symbol : i \in 1..Len(event.out_flows)}

(* C11: in every processed event no symbol is both in in_flows and in      *)
(* out_flows, no symbol is listed twice in either, and every recorded      *)
(* amount is strictly positive: a symbol whose net change is positive is   *)
(* in in_flows only, one whose net change is negative in out_flows only.   *)
C11_SignPartition ==
    Consolidated =>
        \A i \in 1..Len(processed_events) :
            LET event == processed_events[i]
            IN  /\ InFlowSymbols(event) \cap OutFlowSymbols(event) = {}
                /\ Cardinality(InFlowSymbols(event)) = Len(event.in_flows)
                /\ Cardinality(OutFlowSymbols(event)) = Len(event.out_flows)
                /\ \A j \in 1..Len(event.in_flows) : event.in_flows[j].change > 0
                /\ \A j \in 1..Len(event.out_flows) : event.out_flows[j].change > 0
                /\ \A symbol \in Symbols :
                       LET net == NetSum(transactions, event.tx_hash, symbol)
                       IN  /\ net > Eps => symbol \in InFlowSymbols(event)
                           /\ net < -Eps => symbol \in OutFlowSymbols(event)

(* A transaction of two entries moving B in both directions: A is given    *)
(* up, C is received and B, netting within the tolerance, is in neither.   *)
C11_Witness ==
    /\ Consolidated
    /\ Len(transactions) = 2
    /\ Len(processed_events) = 1
    /\ transactions[1].quote.symbol = "B" /\ transactions[1].quote.ui_change_amount > 0
    /\ transactions[2].base.symbol = "B" /\ transactions[2].base.ui_change_amount < 0
    /\ OutFlowSymbols(processed_events[1]) = {"A"}
    /\ InFlowSymbols(processed_events[1]) = {"C"}

-----------------------------------------------------------------------------
(* Order of the entries of a group (SpecConsolidate)                       *)

(* The orders in which the entries of a list can be given.                 *)
Orderings(entries) ==
    {[i \in 1..Len(entries) |-> entries[f[i]]] :
        f \in {g \in [1..Len(entries) -> 1..Len(entries)] :
                  \A i \in 1..Len(entries) : \A j \in 1..Len(entries) :
                      i # j => g[i] # g[j]}}

(* A list of net changes as a mapping from symbol to amount.               *)
AsMapping(net) == {<<net[i].symbol, net[i].change>> : i \in 1..Len(net)}

(* C19: the net changes recorded for a transaction are, as a mapping from  *)
(* symbol to amount, those of every other order of its entries.            *)
C19_OrderInvariant ==
    pc = "summary" =>
        \A i \in 1..Len(net_summary) :
            \A other \in Orderings(grouped_by_hash[i].entries) :
                AsMapping(final_changes(net_token_changes(other)))
                    = AsMapping(net_summary[i].net_token_changes)

-----------------------------------------------------------------------------
(* Attribution of the value of an event to its assets (SpecCalc)           *)

(* A step of the FIFO loop of calculate_pnl.                               *)
LedgerStep == pc = "ledger" /\ calc_next' = calc_next + 1

(* The cost carried by the lot a symbol has at the back of its queue.      *)
BackLotCost(lots, symbol) ==
    lots[symbol][Len(lots[symbol])].qty * lots[symbol][Len(lots[symbol])].cost_per_unit

(* Sum of the cost of the lots the in-flows of an event were given.        *)
RECURSIVE AcquiredCost(_, _)
AcquiredCost(ins, lots) ==
    IF ins = <<>> THEN 0
    ELSE BackLotCost(lots, Head(ins).symbol) + AcquiredCost(Tail(ins), lots)

(* Sum of the quantities of a list of flows.                               *)
RECURSIVE FlowQuantity(_)
FlowQuantity(flows) ==
    IF flows = <<>> THEN 0 ELSE Head(flows).change + FlowQuantity(Tail(flows))

(* Sum of the proceeds booked for the out-flows of an event: each disposal *)
(* that books a result books it against the proceeds it was given.         *)
RECURSIVE BookedProceeds(_, _, _)
BookedProceeds(outs, proceeds, lots) ==
    IF outs = <<>> THEN 0
    ELSE (IF Dispose(lots[Head(outs).symbol], Head(outs).change, 0).cost_of_goods_sold > 0
          THEN proceeds ELSE 0)
         + BookedProceeds(Tail(outs), proceeds, lots)

(* Every out-flow of the event meets a lot with a cost.                    *)
AllDisposalsBooked(outs, lots) ==
    \A i \in 1..Len(outs) :
        Dispose(lots[outs[i].symbol], outs[i].change, 0).cost_of_goods_sold > 0

(* C21: the value of an event is split across the assets of each side: the *)
(* costs of the lots made for its in-flows sum to the event's              *)
(* total_usd_value (up to the rounding of each unit cost), and the         *)
(* proceeds booked for its out-flows sum to that value too; the whole      *)
(* value is not given to each asset.                                       *)
C21_ValueSplitAcrossAssets ==
    [][LedgerStep =>
          LET event == processed_events[calc_next]
          IN  /\ Abs(AcquiredCost(event.in_flows, asset_lots') - event.total_usd_value)
                     <= FlowQuantity(event.in_flows)
              /\ AllDisposalsBooked(event.out_flows, asset_lots) =>
                     BookedProceeds(event.out_flows, event.total_usd_value, asset_lots)
                         = event.total_usd_value]_vars

-----------------------------------------------------------------------------
(* Lots made by BUY events (Spec)                                          *)

AtBuy == InLoop /\ CurrentEvent.event_type = "BUY"

(* The queue was given one lot at the back and is otherwise as before.     *)
AppendedAtBack(before, after) ==
    /\ Len(after) = Len(before) + 1
    /\ SubSeq(after, 1, Len(before)) = before

(* C22: a BUY whose quantity is not positive creates no lot; every BUY     *)
(* that creates a lot appends it at the back of the queue of its token,    *)
(* with the quantity of the event and unit cost = cost / quantity, and     *)
(* leaves the other queues alone.                                          *)
C22_NonPositiveBuyMakesNoLot ==
    [][(AtBuy /\ next_event' = next_event + 1) =>
          LET mint == CurrentEvent.token_mint
          IN  IF CurrentEvent.token_amount <= 0
              THEN positions' = positions
              ELSE /\ AppendedAtBack(positions[mint], positions'[mint])
                   /\ positions'[mint][Len(positions'[mint])].quantity
                          = CurrentEvent.token_amount
                   /\ positions'[mint][Len(positions'[mint])].cost_per_token_usd
                          = DecRound(CurrentEvent.usd_value, CurrentEvent.token_amount)
                   /\ \A other \in Mints \ {mint} :
                          positions'[other] = positions[other]]_vars

-----------------------------------------------------------------------------
(* Events valued from a price of zero (SpecParse)                          *)

(* The embedded price the value of the events of a record is computed      *)
(* from: the token side of a SOL trade, the given-up side otherwise.       *)
NeededPrice(tx) ==
    IF OneSideSol(tx) THEN TokenLeg(tx).price ELSE GivenUp(tx).price

(* C23: when the unit price the value of an event is computed from is zero *)
(* or missing, the events of the record are still emitted, with a value of *)
(* exactly 0 and no price of the other side substituted, and a diagnostic  *)
(* is raised.                                                              *)
C23_MissingPriceFlagged ==
    (/\ pc \in {"parsed", "audited"}
     /\ OppositeSigns(Tx)
     /\ Tx.quote.address # Tx.base.address
     /\ NeededPrice(Tx) = 0) =>
        /\ all_events # <<>>
        /\ \A i \in 1..Len(all_events) : all_events[i].usd_value = 0
        /\ warnings # <<>>

-----------------------------------------------------------------------------
(* Interleaving of the events of different tokens (SpecValued)             *)

(* The ledger the loop has built.                                          *)
Ledger ==
    [positions |-> positions, realized_pnl_usd |-> realized_pnl_usd,
     total_invested_usd |-> total_invested_usd,
     total_withdrawn_usd |-> total_withdrawn_usd]

(* The loop, run to its end, has built the ledger that FifoResult gives    *)
(* for the list of events.                                                 *)
FifoResultIsLedger == pc = "done" => Ledger = FifoResult(all_events)

(* The lists with the same events in which the events of each token keep   *)
(* their relative order.                                                   *)
AssetOrderings(events) ==
    {[i \in 1..Len(events) |-> events[f[i]]] :
        f \in {g \in [1..Len(events) -> 1..Len(events)] :
                  /\ \A i \in 1..Len(events) : \A j \in 1..Len(events) :
                         i # j => g[i] # g[j]
                  /\ \A i \in 1..Len(events) : \A j \in 1..Len(events) :
                         (i < j /\ events[g[i]].token_mint = events[g[j]].token_mint)
                             => g[i] < g[j]}}

(* C24: every list with the same events that agrees with the given one on *)
(* the relative order of the events of each token gives the same lot       *)
(* queues, the same realized P&L and the same invested and withdrawn       *)
(* totals.                                                                 *)
C24_InterleavingIndependent ==
    pc = "done" =>
        \A other \in AssetOrderings(all_events) : FifoResult(other) = Ledger

-----------------------------------------------------------------------------
(* Order of the lots of a queue (Spec)                                     *)

(* The lots of a queue were acquired in the order of the queue.            *)
OldestFirst(lots) ==
    \A i \in 1..Len(lots) : \A j \in 1..Len(lots) :
        i < j => lots[i].timestamp <= lots[j].timestamp

(* A queue after a sale: some lots were removed from the front, the lot    *)
(* then at the front is whole or reduced, and every lot behind it is as it *)
(* was.                                                                    *)
ConsumedFromFront(before, after) ==
    \E removed \in 0..Len(before) :
        /\ Len(after) = Len(before) - removed
        /\ \A i \in 2..Len(after) : after[i] = before[removed + i]
        /\ after # <<>> =>
               \/ after[1] = before[removed + 1]
               \/ /\ after[1].timestamp = before[removed + 1].timestamp
                  /\ after[1].quantity < before[removed + 1].quantity
                  /\ after[1].quantity > 0

(* C25: the lots of every queue are in non-decreasing order of acquisition *)
(* timestamp, front to back, and a SELL only removes lots from the front   *)
(* and reduces the lot left at the front: no lot is reduced while a lot    *)
(* acquired before it is still in the queue.                               *)
C25_FrontLotOnly ==
    [][/\ \A mint \in Mints : OldestFirst(positions'[mint])
       /\ (AtSell /\ next_event' = next_event + 1) =>
              /\ ConsumedFromFront(Lots(CurrentEvent.token_mint),
                                   positions'[CurrentEvent.token_mint])
              /\ OtherLotsUnchanged(CurrentEvent.token_mint)]_vars

(* Two lots of A acquired at block times 1 and 2, then a SELL of one A:    *)
(* the older lot is reduced to 2 and stays in front of the whole later     *)
(* lot.                                                                    *)
C25_Witness ==
    /\ pc = "fifo"
    /\ next_event = 4
    /\ sorted_events[3].event_type = "SELL"
    /\ Len(Lots("A")) = 2
    /\ Lots("A")[1].timestamp = 1 /\ Lots("A")[1].quantity = 2
    /\ Lots("A")[2].timestamp = 2 /\ Lots("A")[2].quantity = 3

-----------------------------------------------------------------------------
(* Quantities of the lots (Spec)                                           *)

(* Every lot of every queue holds a strictly positive quantity.            *)
AllLotsPositive(queues) ==
    \A mint \in Mints : \A i \in 1..Len(queues[mint]) : queues[mint][i].quantity > 0

(* C26: after every step of the ledger every lot of every queue has a      *)
(* quantity strictly greater than 0: a lot that a SELL consumes whole is   *)
(* removed, and a lot consumed in part keeps a positive quantity.          *)
C26_LotsStayPositive ==
    LedgerStarted => AllLotsPositive(positions)

-----------------------------------------------------------------------------
(* Conservation of cost in the ledger (Spec)                               *)

(* Every BUY applied so far acquired a positive quantity.                  *)
BuysPositive == \A i \in AppliedBuys : sorted_events[i].token_amount > 0

(* No sum of the ledger so far had to be rounded: the values of the events *)
(* applied, added up, fit the significant digits of a Decimal.             *)
SumsExact ==
    SumValue(sorted_events, next_event - 1, "BUY")
        + SumValue(sorted_events, next_event - 1, "SELL") < 10 ^ DecDigits

(* The cost still held in a queue, as an exact sum.                        *)
RECURSIVE OpenCost(_)
OpenCost(lots) ==
    IF lots = <<>> THEN 0 ELSE Head(lots).total_cost_usd + OpenCost(Tail(lots))

(* The cost still held in the queues of a set of tokens.                   *)
RECURSIVE OpenCostOver(_)
OpenCostOver(mints) ==
    IF mints = {} THEN 0
    ELSE LET mint == CHOOSE m \in mints : TRUE
         IN  OpenCost(positions[mint]) + OpenCostOver(mints \ {mint})

(* C27: while every BUY applied had a positive quantity and no SELL met an *)
(* empty queue, and no sum was rounded, realized P&L = total withdrawn -   *)
(* total invested + the total cost of the open lots: the cost consumed by  *)
(* the sells and the cost left in the lots add up to total invested.       *)
C27_CostConserved ==
    (LedgerStarted /\ BuysPositive /\ warnings = <<>> /\ SumsExact) =>
        realized_pnl_usd
            = total_withdrawn_usd - total_invested_usd + OpenCostOver(Mints)

(* A finished run in which a SELL took part of a lot bought before it:     *)
(* something was realized, cost is left in the open lots, and the          *)
(* conditions of the identity hold.                                        *)
C27_Witness ==
    /\ pc = "done"
    /\ BuysPositive /\ warnings = <<>> /\ SumsExact
    /\ sell_count >= 1
    /\ buy_count >= 2
    /\ realized_pnl_usd # 0
    /\ OpenCostOver(Mints) > 0
    /\ \E i \in 1..Len(sorted_events) :
           /\ sorted_events[i].event_type = "SELL"
           /\ \E j \in 1..(i - 1) :
                  /\ sorted_events[j].event_type = "BUY"
                  /\ sorted_events[j].token_mint = sorted_events[i].token_mint
                  /\ sorted_events[j].token_amount > sorted_events[i].token_amount

-----------------------------------------------------------------------------
(* Quantity held after a step of the ledger (Spec)                         *)

Max(x, y) == IF x > y THEN x ELSE y

(* A step of the loop on a SELL leaves the token holding max(h - s, 0) and *)
(* a step on a BUY leaves it holding h + b.                                *)
HoldingFollowsEvent ==
    LET mint == CurrentEvent.token_mint
        h == TotalQuantity(Lots(mint))
    IN  /\ (AtSell /\ next_event' = next_event + 1) =>
               TotalQuantity(positions'[mint])
                   = Max(h - CurrentEvent.token_amount, 0)
        /\ (AtBuy /\ next_event' = next_event + 1) =>
               TotalQuantity(positions'[mint]) = h + CurrentEvent.token_amount

(* C28: a SELL of s leaves a token that held h holding max(h - s, 0), a    *)
(* BUY of b leaves it holding h + b, and the quantity of every position of *)
(* the result is not negative.                                             *)
C28_HoldingNeverNegative ==
    [][/\ HoldingFollowsEvent
       /\ pc' = "done" =>
              \A mint \in DOMAIN current_positions' :
                  current_positions'[mint].quantity >= 0]_vars

-----------------------------------------------------------------------------
(* calculate_pnl against run_pnl_verification (SpecVerify)                 *)

(* A processed event of calculate_pnl without its token_addresses.         *)
WithoutAddresses(event) ==
    [tx_hash |-> event.tx_hash, timestamp |-> event.timestamp,
     in_flows |-> event.in_flows, out_flows |-> event.out_flows,
     total_usd_value |-> event.total_usd_value]

(* The verifier built the processed events of calculate_pnl.               *)
SameEvents ==
    /\ Len(verification.processed_events) = Len(processed_events)
    /\ \A i \in 1..Len(processed_events) :
           verification.processed_events[i] = WithoutAddresses(processed_events[i])

(* C29: on the same file run_pnl_verification and calculate_pnl build the  *)
(* same processed events and end with the same realized PNL and the same   *)
(* lots for every symbol.                                                  *)
C29_VerifierAgrees ==
    pc = "verified" =>
        /\ SameEvents
        /\ verification.asset_lots = asset_lots
        /\ verification.realized_pnl = realized_pnl

-----------------------------------------------------------------------------
(* The paginated fetch (SpecFetch)                                         *)

(* Every batch the API gave held at most the items asked for.              *)
WithinLimits ==
    \A i \in 1..Len(responses) :
        (responses[i].status_code = 200 /\ responses[i].success) =>
            responses[i].items <= responses[i].limit

(* A request is being issued.                                              *)
Requesting == Len(responses') = Len(responses) + 1

(* The last response, if any, gave a full, non-empty batch.                *)
LastBatchFull ==
    responses # <<>> =>
        LET last == responses[Len(responses)]
        IN  /\ ~Breaks(last)
            /\ last.items >= last.limit

(* C30: the fetch loop ends; while every batch holds at most the items     *)
(* asked for it never collects more than max_transactions; every           *)
(* iteration leaves the loop or adds at least one record; and no request   *)
(* follows an empty batch, a short batch, a failure status or success =    *)
(* false.                                                                  *)
C30_FetchLoopBounded ==
    /\ <>(pc = "saved")
    /\ [](WithinLimits => Len(transactions) <= max_transactions)
    /\ [][Requesting =>
             /\ pc' = "save" \/ Len(transactions') > Len(transactions)
             /\ LastBatchFull]_vars

(* Three records were asked for and came in a batch of two and, the limit  *)
(* lowered to one, a batch of one: the loop was left by its condition.     *)
C30_Witness ==
    /\ pc = "saved"
    /\ max_transactions = 3
    /\ Len(responses) = 2
    /\ responses[1].limit = 2 /\ responses[1].items = 2
    /\ responses[2].limit = 1 /\ responses[2].items = 1
    /\ responses[2].offset = 2
    /\ Len(transactions) = 3

=============================================================================
